---- MODULE Spec2Model ----
(***************************************************************************)
(* A model of scripts/site_metrics_playwright.py: sitemap discovery with   *)
(* recursive index resolution, the breadth-first fallback crawl, the       *)
(* same-host filter / dedup / sort, and the word-count sampling pass.      *)
(*                                                                         *)
(* Strings are atoms; Chars gives an atom's code points, on which the      *)
(* string operations of the source (lower, endswith, substring search,     *)
(* lexicographic comparison) are computed.  A URL is the record of what    *)
(* urlparse splits it into.  The web is the environment: every fetch and   *)
(* every navigation draws its response with \E.                            *)
(*                                                                         *)
(* Spec is one run of main().  SpecResolve is one call of                  *)
(* fetch_all_sitemap_urls with any cap, on a web that answers each sitemap *)
(* URL the same way every time (smWorld).  SpecCrawl is one call of        *)
(* fallback_crawl_internal with any limit.  SpecTail is main() from line   *)
(* 315 on, for the lists discovery can hand over.  SpecNormalize is one     *)
(* call of normalize_base_url and SpecSample one call of                   *)
(* compute_average_words.  SpecAcyclic and SpecCrawlFair are calls of      *)
(* fetch_all_sitemap_urls (on webs without cycles) and of                  *)
(* fallback_crawl_internal that keep taking steps.  One action is one      *)
(* fetch or navigation together with the code that runs up to the next     *)
(* one.                                                                    *)
(***************************************************************************)
EXTENDS Integers, Sequences, FiniteSets, TLC

(* ------------------------------ bounds -------------------------------- *)

\* At most this many faulty responses (failed fetch, block page, broken
\* gzip, malformed XML) in one run.
MaxFaults == 2

\* fallback_crawl_internal is called directly with limit in 0..MaxLimit.
MaxLimit == 4

\* fetch_all_sitemap_urls is called directly with max_children in
\* 0..MaxCap.
MaxCap == 2

\* Deepest recursion of fetch_all_sitemap_urls that is explored.
MaxDepth == 3

(* --------------------------- program constants ------------------------ *)

DefaultLimit == 2000
DefaultMaxChildren == 50
SampleSize == 10

(* ------------------------------- state --------------------------------- *)

VARIABLES
  entry,         \* the function that was called: "main", "crawl", "resolve",
                 \* "normalize", "sample"
  pc,            \* where the program is
  website,       \* main: the website argument as given
  base_url,      \* normalize_base_url(website)
  max_children,  \* fetch_all_sitemap_urls: the fan-out cap
  limit,         \* fallback_crawl_internal: the visit cap
  candidates,    \* discover_urls_from_sitemaps: try_discover_sitemaps' list
  candIdx,       \* ... the position of its loop over the candidates
  stack,         \* the activations of fetch_all_sitemap_urls, outermost first
  retval,        \* the list a function has returned to its caller
  queue,         \* fallback_crawl_internal: the frontier
  visited,       \* ... the visited set
  urls,          \* main: urls after the filter, the dedup and the sort
  total_pages,   \* main: total_pages
  sampleIdx,     \* compute_average_words: the position in sample
  counts,        \* ... counts
  average_words, \* ... its result
  smWorld,       \* the web: the response each fetched sitemap URL gives
  faults,        \* the web: faulty responses given so far
  failed,        \* history: URLs whose fetch or navigation has failed
  blocked,       \* history: URLs whose page or payload was classified blocked
  winner,        \* history: the candidate whose resolution was non-empty
  via,           \* history: what produced main's URLs: "sitemap", "crawl"
  discovered,    \* history: the set of URLs discovery handed to main
  navLog         \* history: the navigations of a crawl or a sampling pass
                 \* called on its own, each with the page it was answered

vars == <<entry, pc, website, base_url, max_children, limit, candidates,
          candIdx, stack, retval, queue, visited, urls, total_pages,
          sampleIdx, counts, average_words, smWorld, faults, failed, blocked,
          winner, via, discovered, navLog>>

(* ------------------------------ strings ------------------------------- *)

\* Every string the model spells out.
Strings ==
  {"", "https", "http", "ftp", "mailto", "a.com", "A.com", "b.com",
   "HTTPS:", "/", "/robots.txt", "/sitemap.xml", "/sitemap_index.xml",
   "/sitemap-index.xml", "/sitemap.xml.gz", "/c1.xml", "/c2.xml.gz", "/p1",
   "/p2", "/p3", "/p4", "/p5", "/p6", "/p7", "/p8", "/p9", "/p10", "/p11",
   "/p12", "/x", ".gz", "://", "urlset", "UrlSet", "sitemapindex", "html",
   "cloudflare", "Cloudflare", "attention required",
   "please enable cookies", "sorry, you have been blocked", "welcome",
   "sitemap", "Sitemap", "user-agent", " ", "http://", "https://",
   "HTTPS://", ":", "SITEMAP", "Attention Required", "SitemapIndex",
   "sitemap:"}

\* The code points of each string.
CharTable ==
  [s \in Strings |->
    CASE
         s = "" -> <<>>
      [] s = "https" -> <<104, 116, 116, 112, 115>>
      [] s = "http" -> <<104, 116, 116, 112>>
      [] s = "ftp" -> <<102, 116, 112>>
      [] s = "mailto" -> <<109, 97, 105, 108, 116, 111>>
      [] s = "a.com" -> <<97, 46, 99, 111, 109>>
      [] s = "A.com" -> <<65, 46, 99, 111, 109>>
      [] s = "b.com" -> <<98, 46, 99, 111, 109>>
      [] s = "HTTPS:" -> <<72, 84, 84, 80, 83, 58>>
      [] s = "/" -> <<47>>
      [] s = "/robots.txt" -> <<47, 114, 111, 98, 111, 116, 115, 46, 116, 120, 116>>
      [] s = "/sitemap.xml" -> <<47, 115, 105, 116, 101, 109, 97, 112, 46, 120, 109, 108>>
      [] s = "/sitemap_index.xml" -> <<47, 115, 105, 116, 101, 109, 97, 112, 95, 105, 110, 100, 101, 120, 46, 120, 109, 108>>
      [] s = "/sitemap-index.xml" -> <<47, 115, 105, 116, 101, 109, 97, 112, 45, 105, 110, 100, 101, 120, 46, 120, 109, 108>>
      [] s = "/sitemap.xml.gz" -> <<47, 115, 105, 116, 101, 109, 97, 112, 46, 120, 109, 108, 46, 103, 122>>
      [] s = "/c1.xml" -> <<47, 99, 49, 46, 120, 109, 108>>
      [] s = "/c2.xml.gz" -> <<47, 99, 50, 46, 120, 109, 108, 46, 103, 122>>
      [] s = "/p1" -> <<47, 112, 49>>
      [] s = "/p2" -> <<47, 112, 50>>
      [] s = "/p3" -> <<47, 112, 51>>
      [] s = "/p4" -> <<47, 112, 52>>
      [] s = "/p5" -> <<47, 112, 53>>
      [] s = "/p6" -> <<47, 112, 54>>
      [] s = "/p7" -> <<47, 112, 55>>
      [] s = "/p8" -> <<47, 112, 56>>
      [] s = "/p9" -> <<47, 112, 57>>
      [] s = "/p10" -> <<47, 112, 49, 48>>
      [] s = "/p11" -> <<47, 112, 49, 49>>
      [] s = "/p12" -> <<47, 112, 49, 50>>
      [] s = "/x" -> <<47, 120>>
      [] s = ".gz" -> <<46, 103, 122>>
      [] s = "://" -> <<58, 47, 47>>
      [] s = "urlset" -> <<117, 114, 108, 115, 101, 116>>
      [] s = "UrlSet" -> <<85, 114, 108, 83, 101, 116>>
      [] s = "sitemapindex" -> <<115, 105, 116, 101, 109, 97, 112, 105, 110, 100, 101, 120>>
      [] s = "html" -> <<104, 116, 109, 108>>
      [] s = "cloudflare" -> <<99, 108, 111, 117, 100, 102, 108, 97, 114, 101>>
      [] s = "Cloudflare" -> <<67, 108, 111, 117, 100, 102, 108, 97, 114, 101>>
      [] s = "attention required" -> <<97, 116, 116, 101, 110, 116, 105, 111, 110, 32, 114, 101, 113, 117, 105, 114, 101, 100>>
      [] s = "please enable cookies" -> <<112, 108, 101, 97, 115, 101, 32, 101, 110, 97, 98, 108, 101, 32, 99, 111, 111, 107, 105, 101, 115>>
      [] s = "sorry, you have been blocked" -> <<115, 111, 114, 114, 121, 44, 32, 121, 111, 117, 32, 104, 97, 118, 101, 32, 98, 101, 101, 110, 32, 98, 108, 111, 99, 107, 101, 100>>
      [] s = "welcome" -> <<119, 101, 108, 99, 111, 109, 101>>
      [] s = "sitemap" -> <<115, 105, 116, 101, 109, 97, 112>>
      [] s = "Sitemap" -> <<83, 105, 116, 101, 109, 97, 112>>
      [] s = "user-agent" -> <<117, 115, 101, 114, 45, 97, 103, 101, 110, 116>>
      [] s = " " -> <<32>>
      [] s = "http://" -> <<104, 116, 116, 112, 58, 47, 47>>
      [] s = "https://" -> <<104, 116, 116, 112, 115, 58, 47, 47>>
      [] s = "HTTPS://" -> <<72, 84, 84, 80, 83, 58, 47, 47>>
      [] s = ":" -> <<58>>
      [] s = "SITEMAP" -> <<83, 73, 84, 69, 77, 65, 80>>
      [] s = "Attention Required" -> <<65, 116, 116, 101, 110, 116, 105, 111, 110, 32, 82, 101, 113, 117, 105, 114, 101, 100>>
      [] s = "SitemapIndex" -> <<83, 105, 116, 101, 109, 97, 112, 73, 110, 100, 101, 120>>
      [] s = "sitemap:" -> <<115, 105, 116, 101, 109, 97, 112, 58>>]

Chars(s) == CharTable[s]

RECURSIVE LowerSeq(_)
LowerSeq(cs) ==
  IF cs = <<>> THEN <<>>
  ELSE LET c == Head(cs)
       IN  <<IF c >= 65 /\ c <= 90 THEN c + 32 ELSE c>> \o LowerSeq(Tail(cs))

StartsWith(cs, pre) ==
  /\ Len(cs) >= Len(pre)
  /\ SubSeq(cs, 1, Len(pre)) = pre

EndsWith(cs, suf) ==
  /\ Len(cs) >= Len(suf)
  /\ SubSeq(cs, Len(cs) - Len(suf) + 1, Len(cs)) = suf

Contains(cs, sub) ==
  \E i \in 0..(Len(cs) - Len(sub)) : SubSeq(cs, i + 1, i + Len(sub)) = sub

\* Python's str comparison: code point by code point, a proper prefix first.
RECURSIVE LexLess(_, _)
LexLess(a, b) ==
  IF b = <<>> THEN FALSE
  ELSE IF a = <<>> THEN TRUE
  ELSE IF Head(a) # Head(b) THEN Head(a) < Head(b)
  ELSE LexLess(Tail(a), Tail(b))

(* -------------------------------- URLs -------------------------------- *)

URL(s, h, p) == [scheme |-> s, host |-> h, path |-> p]

EmptyURL == URL("", "", "")

\* The text of a URL as the program holds it.
UrlChars(u) ==
  IF u.scheme = "" /\ u.host = "" THEN Chars(u.path)
  ELSE Chars(u.scheme) \o Chars("://") \o Chars(u.host) \o Chars(u.path)

same_host(a, b) == LowerSeq(Chars(a.host)) = LowerSeq(Chars(b.host))

BlockPhrases ==
  {"attention required", "cloudflare", "please enable cookies",
   "sorry, you have been blocked"}

\* A text is modelled by the one notable phrase it carries.
\* A classifier that flags nothing.
NeverBlocked(phrase) == FALSE

is_probably_cloudflare_block(phrase) ==
  \E m \in BlockPhrases : Contains(LowerSeq(Chars(phrase)), Chars(m))

Range(s) == {s[i] : i \in 1..Len(s)}

RECURSIVE SelectLocs(_)
\* The loop of parse_sitemap_xml over the loc elements: an element whose
\* text is missing or empty is skipped, every other text is stripped.
SelectLocs(locs) ==
  IF locs = <<>> THEN <<>>
  ELSE LET l == Head(locs)
       IN  (IF l.ws \/ l.s # EmptyURL THEN <<l.s>> ELSE <<>>)
             \o SelectLocs(Tail(locs))


(* ------------------------- the sitemap XML parser ---------------------- *)

\* A tag "{ns}local" is the pair of its namespace and its local name.
strip_ns(tag) == tag.local

NoLists == [urls |-> <<>>, children |-> <<>>]

\* An XML payload: whether it parses at all, its root tag, and the loc
\* texts of its url and of its sitemap elements, in document order.
parse_sitemap_xml(x) ==
  IF ~x.wellformed THEN NoLists
  ELSE LET root_tag == LowerSeq(Chars(strip_ns(x.tag)))
       IN  IF root_tag = Chars("urlset")
             THEN [urls |-> SelectLocs(x.urlLocs), children |-> <<>>]
           ELSE IF root_tag = Chars("sitemapindex")
             THEN [urls |-> <<>>, children |-> SelectLocs(x.smLocs)]
           ELSE NoLists

(* --------------------------- the fetch helpers ------------------------- *)

\* fetch_bytes_with_request / fetch_text_with_request: None on an
\* exception, on a status other than 200 and on an empty body.
FetchIsNone(resp) == resp.raised \/ resp.status # 200 \/ resp.empty

Min(a, b) == IF a < b THEN a ELSE b

\* children[:n]
\* The whole list, whatever the cap.
TakeAll(s, n) == s

Take(s, n) == SubSeq(s, 1, Min(n, Len(s)))

IsGzUrl(u) == EndsWith(UrlChars(u), Chars(".gz"))

Garbage == [wellformed |-> FALSE, tag |-> [ns |-> "", local |-> ""],
            urlLocs |-> <<>>, smLocs |-> <<>>]

\* What fetch_all_sitemap_urls makes of one response before it recurses:
\* a returned list, or the children it goes on to resolve; how says which
\* line decided.
Returned(v, h) == [ret |-> TRUE, val |-> v, children |-> <<>>, how |-> h]

\* A payload whose page URLs are set aside when it also names sitemaps.
SitemapPayloadThenChildren(u, resp) ==
  IF FetchIsNone(resp) THEN Returned(<<>>, "failed")
  ELSE IF IsGzUrl(u) /\ ~resp.body.gz THEN Returned(<<>>, "gzip")
  ELSE LET packed  == ~IsGzUrl(u) /\ resp.body.gz
           phrase  == IF packed THEN "" ELSE resp.body.phrase
           content == IF packed THEN Garbage ELSE resp.body.xml
           parsed  == parse_sitemap_xml(content)
           named   == SelectLocs(content.smLocs)
       IN  IF is_probably_cloudflare_block(phrase) THEN Returned(<<>>, "blocked")
           ELSE IF parsed.urls # <<>> /\ named = <<>> THEN Returned(parsed.urls, "urls")
           ELSE [ret |-> FALSE, val |-> <<>>,
                 children |-> IF parsed.urls # <<>> THEN named ELSE parsed.children,
                 how |-> "children"]

SitemapPayload(u, resp) ==
  IF FetchIsNone(resp) THEN Returned(<<>>, "failed")
  ELSE IF IsGzUrl(u) /\ ~resp.body.gz THEN Returned(<<>>, "gzip")
  ELSE LET packed  == ~IsGzUrl(u) /\ resp.body.gz
           phrase  == IF packed THEN "" ELSE resp.body.phrase
           content == IF packed THEN Garbage ELSE resp.body.xml
           parsed  == parse_sitemap_xml(content)
       IN  IF is_probably_cloudflare_block(phrase) THEN Returned(<<>>, "blocked")
           ELSE IF parsed.urls # <<>> THEN Returned(parsed.urls, "urls")
           ELSE [ret |-> FALSE, val |-> <<>>, children |-> parsed.children,
                 how |-> "children"]

(* ------------------------------ the web -------------------------------- *)

Loc(u)    == [ws |-> FALSE, s |-> u]
LocPad(u) == [ws |-> TRUE, s |-> u]
LocBlank  == [ws |-> TRUE, s |-> EmptyURL]
LocNone   == [ws |-> FALSE, s |-> EmptyURL]

Site(p)  == URL("https", "a.com", p)
Other(p) == URL("https", "b.com", p)

Tag(n, l) == [ns |-> n, local |-> l]

Xml(t, ul, sl) == [wellformed |-> TRUE, tag |-> t, urlLocs |-> ul, smLocs |-> sl]

Child1 == Site("/c1.xml")
Child2 == Site("/c2.xml.gz")
SM == Site("/sitemap.xml")

\* The well-formed payloads a candidate may serve during a whole run.
RootXml ==
  { Xml(Tag("", "urlset"),
        <<Loc(Site("/p2")), LocPad(Site("/p10")), Loc(Other("/p1")), Loc(Site("/p2"))>>,
        <<>>),
    Xml(Tag("", "urlset"), <<Loc(Other("/p1"))>>, <<>>),
    Xml(Tag("", "urlset"), <<LocBlank>>, <<>>),
    Xml(Tag("", "sitemapindex"), <<>>, <<>>),
    Xml(Tag("", "sitemapindex"), <<>>, <<Loc(Child1), Loc(Child2)>>) }

\* The well-formed payloads a child sitemap may serve during a whole run.
LeafXml ==
  { Xml(Tag("", "urlset"), <<Loc(Site("/p1"))>>, <<>>),
    Xml(Tag("", "sitemapindex"), <<>>, <<>>) }

\* The well-formed payloads a sitemap URL may serve.
GoodXml ==
  { Xml(Tag("x", "UrlSet"), <<Loc(Site("/p1"))>>, <<>>),
    Xml(Tag("", "urlset"), <<Loc(Site("/p2")), LocPad(Site("/p10")), Loc(Site("/p2"))>>, <<>>),
    Xml(Tag("", "urlset"), <<LocBlank>>, <<>>),
    Xml(Tag("", "urlset"), <<LocNone, Loc(Other("/p1"))>>, <<Loc(Child1)>>),
    Xml(Tag("", "urlset"), <<LocNone>>, <<Loc(Child1)>>),
    Xml(Tag("", "html"), <<Loc(Site("/p1"))>>, <<Loc(Child1)>>),
    Xml(Tag("", "sitemapindex"), <<>>, <<>>),
    Xml(Tag("x", "sitemapindex"), <<Loc(Site("/p3"))>>, <<Loc(Child1), LocNone, LocPad(Child2)>>),
    Xml(Tag("", "sitemapindex"), <<>>, <<Loc(Child2), Loc(Child1), Loc(SM)>>),
    Xml(Tag("", "SitemapIndex"), <<>>, <<Loc(Child1), Loc(Child1)>>),
    Xml(Tag("", "sitemapindex"), <<>>, <<Loc(Child2)>>) }
    \cup RootXml \cup LeafXml

Body(g, ph, x) == [gz |-> g, phrase |-> ph, xml |-> x]

NoBody == Body(FALSE, "", Garbage)

Response(r, st, e, b) == [raised |-> r, status |-> st, empty |-> e, body |-> b]

FailedResponses ==
  { Response(TRUE, 0, TRUE, NoBody),
    Response(FALSE, 404, FALSE, NoBody),
    Response(FALSE, 200, TRUE, NoBody) }

AnyUrlset == Xml(Tag("", "urlset"), <<Loc(Site("/p1"))>>, <<>>)

\* The responses URL u may give: a failed fetch, a payload whose gzip
\* framing does not fit the URL, a block page, malformed XML, or one of
\* the well-formed payloads.
BrokenResponses(u) ==
  { Response(FALSE, 200, FALSE, Body(~IsGzUrl(u), "welcome", AnyUrlset)),
    Response(FALSE, 200, FALSE, Body(IsGzUrl(u), "Cloudflare", AnyUrlset)),
    Response(FALSE, 200, FALSE, Body(IsGzUrl(u), "welcome", Garbage)) }

\* Within one call of fetch_all_sitemap_urls the web is held fixed: a
\* sitemap URL fetched again gives what it gave before.  Over a whole run
\* every fetch is drawn afresh.
FixedWeb == entry = "resolve"

Served(u) ==
  IF FixedWeb THEN GoodXml
  ELSE IF u \in {Child1, Child2} THEN LeafXml ELSE RootXml

GoodResponses(u) ==
  { Response(FALSE, 200, FALSE, Body(IsGzUrl(u), "welcome", x)) : x \in Served(u) }

IsFault(u, resp) == resp \in FailedResponses \cup BrokenResponses(u)


(* ----------------------- normalize_base_url (30-39) -------------------- *)

Atoms ==
  {"", "https", "http", "a.com", "A.com", "b.com", "HTTPS:", "/", "/x"}

\* The atom that spells cs.
Atom(cs) == CHOOSE a \in Atoms : Chars(a) = cs

RECURSIVE Cat(_)
\* The text of a string given in pieces.
Cat(parts) == IF parts = <<>> THEN <<>> ELSE Chars(Head(parts)) \o Cat(Tail(parts))

RECURSIVE LStrip(_)
LStrip(cs) == IF cs # <<>> /\ Head(cs) = 32 THEN LStrip(Tail(cs)) ELSE cs

RECURSIVE RStrip(_)
RStrip(cs) ==
  IF cs # <<>> /\ cs[Len(cs)] = 32 THEN RStrip(SubSeq(cs, 1, Len(cs) - 1)) ELSE cs

Strip(cs) == RStrip(LStrip(cs))

RECURSIVE UpTo(_, _)
\* The prefix of cs before the first code point in stops.
UpTo(cs, stops) ==
  IF cs = <<>> \/ Head(cs) \in stops THEN <<>>
  ELSE <<Head(cs)>> \o UpTo(Tail(cs), stops)

\* urlparse of a text that starts with http:// or https://
SchemeOf(cs) == UpTo(cs, {58})
NetlocOf(cs) == UpTo(SubSeq(cs, Len(SchemeOf(cs)) + 4, Len(cs)), {47, 63, 35})

Raised(why) == [raises |-> TRUE, why |-> why, url |-> EmptyURL]

normalize_base_url(input) ==
  LET url == Strip(Cat(input))
      full == IF ~StartsWith(url, Chars("http://")) /\ ~StartsWith(url, Chars("https://"))
                THEN Chars("https://") \o url ELSE url
  IN  IF url = <<>> THEN Raised("website is leeg")
      ELSE IF NetlocOf(full) = <<>> THEN Raised("website url is ongeldig")
      ELSE [raises |-> FALSE, why |-> "",
            url |-> URL(Atom(SchemeOf(full)), Atom(NetlocOf(full)), "/")]

\* The website arguments main is run with.
Websites ==
  { <<"a.com">>,
    <<" ", "http://", "A.com", "/x", " ">>,
    <<>>,
    <<" ">>,
    <<"https://">> }

(* --------------------- try_discover_sitemaps (139-156) ----------------- *)

DEFAULT_SITEMAP_CANDIDATES ==
  <<"/sitemap.xml", "/sitemap_index.xml", "/sitemap-index.xml", "/sitemap.xml.gz">>

Line(k, v) == [key |-> k, val |-> v]

\* The text of a robots.txt line "key:value", lower-cased.
LineLower(l) ==
  LowerSeq(Chars(l.key) \o Chars(":")
             \o (IF l.val.ws THEN Chars(" ") ELSE <<>>) \o UrlChars(l.val.s))

RECURSIVE parse_robots_for_sitemaps(_)
parse_robots_for_sitemaps(lines) ==
  IF lines = <<>> THEN <<>>
  ELSE LET l == Head(lines)
       IN  (IF StartsWith(LineLower(l), Chars("sitemap:")) /\ l.val.s # EmptyURL
              THEN <<l.val.s>> ELSE <<>>)
             \o parse_robots_for_sitemaps(Tail(lines))

RECURSIVE Dedup(_, _)
\* The elements of s not in seen, each once, in first-seen order.
Dedup(s, seen) ==
  IF s = <<>> THEN <<>>
  ELSE IF Head(s) \in seen THEN Dedup(Tail(s), seen)
  ELSE <<Head(s)>> \o Dedup(Tail(s), seen \cup {Head(s)})

RobotsText(ph, ls) == [phrase |-> ph, lines |-> ls]

NoText == RobotsText("", <<>>)

RobotsResponse(r, st, e, t) == [raised |-> r, status |-> st, empty |-> e, text |-> t]

RobotsFailed ==
  { RobotsResponse(TRUE, 0, TRUE, NoText),
    RobotsResponse(FALSE, 503, FALSE, NoText) }

RobotsBlocked ==
  { RobotsResponse(FALSE, 200, FALSE,
      RobotsText("please enable cookies", <<Line("Sitemap", Loc(Child1))>>)) }

RobotsGood ==
  { RobotsResponse(FALSE, 200, FALSE, RobotsText("welcome", ls)) : ls \in
      { <<Line("user-agent", Loc(EmptyURL)), Line("Sitemap", LocPad(Child1))>>,
        <<Line("SITEMAP", Loc(SM)), Line("sitemap", LocPad(Child2)), Line("Sitemap", Loc(SM))>>,
        <<Line("Sitemap", LocBlank)>> } }

\* The candidates without the removal of duplicates.
CandidatesWithRepeats(base, resp) ==
  LET robots_text == IF FetchIsNone(resp) THEN NoText ELSE resp.text
      found == IF ~FetchIsNone(resp) /\ ~is_probably_cloudflare_block(robots_text.phrase)
                 THEN parse_robots_for_sitemaps(robots_text.lines) ELSE <<>>
      defaults == [i \in 1..Len(DEFAULT_SITEMAP_CANDIDATES) |->
                     URL(base.scheme, base.host, DEFAULT_SITEMAP_CANDIDATES[i])]
  IN  found \o defaults

try_discover_sitemaps(base, resp) ==
  LET robots_text == IF FetchIsNone(resp) THEN NoText ELSE resp.text
      found == IF ~FetchIsNone(resp) /\ ~is_probably_cloudflare_block(robots_text.phrase)
                 THEN parse_robots_for_sitemaps(robots_text.lines) ELSE <<>>
      defaults == [i \in 1..Len(DEFAULT_SITEMAP_CANDIDATES) |->
                     URL(base.scheme, base.host, DEFAULT_SITEMAP_CANDIDATES[i])]
  IN  Dedup(found \o defaults, {})


(* ---------------------- extract_internal_links (203-218) --------------- *)

\* An href: a scheme and host when it is absolute, a path, and whether it
\* ends in a #fragment.  All empty: an empty href attribute.
Href(s, h, p, f) == [scheme |-> s, host |-> h, path |-> p, frag |-> f]

\* urljoin(page_url, href), the fragment kept.
urljoin(page_url, href) ==
  IF href.scheme # "" THEN href
  ELSE IF href.path # "" THEN Href(page_url.scheme, page_url.host, href.path, href.frag)
  ELSE Href(page_url.scheme, page_url.host, page_url.path, href.frag)

urldefrag(ref) == URL(ref.scheme, ref.host, ref.path)

RECURSIVE LinksOfAnyHost(_, _, _)
\* The links of a page whatever their host.
LinksOfAnyHost(anchors, page_url, base) ==
  IF anchors = <<>> THEN <<>>
  ELSE LET href == Head(anchors)
           absolute == urldefrag(urljoin(page_url, href))
           keep == /\ href # Href("", "", "", FALSE)
                   /\ absolute.scheme \in {"http", "https"}
       IN  (IF keep THEN <<absolute>> ELSE <<>>)
             \o LinksOfAnyHost(Tail(anchors), page_url, base)

RECURSIVE extract_internal_links(_, _, _)
extract_internal_links(anchors, page_url, base) ==
  IF anchors = <<>> THEN <<>>
  ELSE LET href == Head(anchors)
           absolute == urldefrag(urljoin(page_url, href))
           keep == /\ href # Href("", "", "", FALSE)
                   /\ same_host(absolute, base)
                   /\ absolute.scheme \in {"http", "https"}
       IN  (IF keep THEN <<absolute>> ELSE <<>>)
             \o extract_internal_links(Tail(anchors), page_url, base)

(* ----------------------- word_count_from_html (249-260) ---------------- *)

\* A page's text is a sequence of nodes: the tag that holds the text and
\* the number of word tokens in it.
Node(t, n) == [tag |-> t, words |-> n]

RECURSIVE word_count_from_html(_)
word_count_from_html(nodes) ==
  IF nodes = <<>> THEN 0
  ELSE (IF Head(nodes).tag \in {"script", "style", "noscript"} THEN 0
        ELSE Head(nodes).words)
         + word_count_from_html(Tail(nodes))

(* ------------------------------ the pages ------------------------------ *)

Html(ph, ns, as) == [phrase |-> ph, nodes |-> ns, anchors |-> as]

Navigation(r, h) == [raised |-> r, html |-> h]

NavFailed == { Navigation(TRUE, Html("", <<>>, <<>>)) }

RelP1   == Href("", "", "/p1", FALSE)
AbsP2   == Href("https", "a.com", "/p2", TRUE)
AbsCase == Href("http", "A.com", "/", FALSE)

NavBlocked ==
  { Navigation(FALSE, Html("Attention Required", <<Node("p", 7)>>, <<RelP1>>)) }

NavGood ==
  { Navigation(FALSE, Html("", <<>>, <<>>)),
    Navigation(FALSE, Html("welcome", <<Node("script", 4), Node("p", 3)>>,
                           <<RelP1, AbsP2>>)),
    Navigation(FALSE, Html("welcome", <<Node("p", 2), Node("div", 3)>>,
                           <<RelP1, RelP1, AbsP2>>)),
    Navigation(FALSE, Html("welcome", <<Node("style", 9)>>,
                           <<Href("https", "b.com", "/p1", FALSE),
                             Href("ftp", "a.com", "/p1", FALSE),
                             Href("mailto", "", "/x", FALSE),
                             Href("", "", "", TRUE),
                             Href("", "", "", FALSE)>>)),
    Navigation(FALSE, Html("welcome", <<Node("p", 4)>>, <<AbsCase, RelP1>>)) }

PlainPage == Navigation(FALSE, Html("welcome", <<Node("p", 4)>>, <<>>))

\* The paths whose pages vary; every other page is the plain one.  A crawl
\* or a sampling pass called on its own meets more varied pages than a
\* whole run does.
VariedPaths == IF entry \in {"crawl", "sample"} THEN {"/", "/p1", "/p2"} ELSE {"/"}

\* The outcomes a navigation to u may have now.
Navigations(u) ==
  {r \in NavFailed \cup NavBlocked : faults < MaxFaults}
    \cup (IF u.path \in VariedPaths THEN NavGood ELSE {PlainPage})

NavResult(resp) ==
  IF resp.raised THEN "failed"
  ELSE IF is_probably_cloudflare_block(resp.html.phrase) THEN "blocked"
  ELSE "ok"

FaultsAfter(isFault) == IF isFault THEN faults + 1 ELSE faults

\* The navigation log after page.goto(u) was answered with resp; whole runs
\* of main keep none.
Logged(u, resp) ==
  IF entry = "main" THEN navLog ELSE Append(navLog, [url |-> u, resp |-> resp])

(* ------------------------- main, lines 315-319 ------------------------- *)

RECURSIVE SortSet(_)
\* sorted(set(...)): ascending in Python's string order.
SortSet(S) ==
  IF S = {} THEN <<>>
  ELSE LET m == CHOOSE x \in S :
                  \A y \in S \ {x} : LexLess(UrlChars(x), UrlChars(y))
       IN  <<m>> \o SortSet(S \ {m})

HostFilter(list, base) == SelectSeq(list, LAMBDA u : same_host(u, base))

\* The filtered list without duplicates, in the order it came in.
FilterUnsorted(list, base) == Dedup(HostFilter(list, base), {})

FilterSort(list, base) == SortSet(Range(HostFilter(list, base)))

\* compute_average_words: sample = urls[:sample_size]
Sample == Take(urls, SampleSize)

RECURSIVE Sum(_)
Sum(s) == IF s = <<>> THEN 0 ELSE Head(s) + Sum(Tail(s))

\* A float as the fraction it is.
Frac(n, d) == [num |-> n, den |-> d]

\* An average over the pages sampled, not over the pages counted.
AverageOverSample(cs) ==
  IF cs = <<>> THEN Frac(0, 1) ELSE Frac(Sum(cs), Len(Take(urls, SampleSize)))

Average(cs) == IF cs = <<>> THEN Frac(0, 1) ELSE Frac(Sum(cs), Len(cs))

\* All orders in which a set can be listed.
Orders(S) ==
  {s \in [1..Cardinality(S) -> S] : \A i, j \in 1..Cardinality(S) : i # j => s[i] # s[j]}


(* ------------------------------ initial states ------------------------- *)

EmptyWorld == [u \in {} |-> Response(TRUE, 0, TRUE, NoBody)]

\* main() is run with a website argument (287-294).
Init ==
  \E w \in Websites :
    /\ entry = "main" /\ pc = "start"
    /\ website = w
    /\ base_url = EmptyURL
    /\ max_children = DefaultMaxChildren /\ limit = DefaultLimit
    /\ candidates = <<>> /\ candIdx = 0 /\ stack = <<>> /\ retval = <<>>
    /\ queue = <<>> /\ visited = {}
    /\ urls = <<>> /\ total_pages = 0 /\ sampleIdx = 0 /\ counts = <<>>
    /\ average_words = Frac(0, 1)
    /\ smWorld = EmptyWorld /\ faults = 0 /\ failed = {} /\ blocked = {}
    /\ winner = 0 /\ via = "none" /\ discovered = {} /\ navLog = <<>>

Bases == {URL("https", "a.com", "/"), URL("http", "A.com", "/")}

\* One activation of fetch_all_sitemap_urls: the URL it was called with,
\* the children it parsed, the position i of its loop over
\* children[:max_children] (0 before its fetch), and all_urls.
Frame(u) == [url |-> u, children |-> <<>>, i |-> 0, all_urls |-> <<>>]

\* fetch_all_sitemap_urls(context, sitemap_url, max_children) is called.
InitResolve ==
  \E u \in {SM, Child2}, n \in 0..MaxCap :
    /\ entry = "resolve" /\ pc = "resolve"
    /\ website = <<>> /\ base_url = EmptyURL
    /\ max_children = n /\ limit = DefaultLimit
    /\ candidates = <<>> /\ candIdx = 0
    /\ stack = <<Frame(u)>>
    /\ retval = <<>>
    /\ queue = <<>> /\ visited = {}
    /\ urls = <<>> /\ total_pages = 0 /\ sampleIdx = 0 /\ counts = <<>>
    /\ average_words = Frac(0, 1)
    /\ smWorld = EmptyWorld /\ faults = 0 /\ failed = {} /\ blocked = {}
    /\ winner = 0 /\ via = "none" /\ discovered = {} /\ navLog = <<>>

\* The sitemap URLs of the web, and every way they can answer.
SitemapUrls == {SM, Child1, Child2}

\* What a sitemap URL of such a web may answer: no response, a block page,
\* or a well-formed payload that names pages, nothing, or other sitemaps.
Answers(u) ==
  { Response(FALSE, 404, FALSE, NoBody),
    Response(FALSE, 200, FALSE, Body(IsGzUrl(u), "Cloudflare", AnyUrlset)) }
    \cup { Response(FALSE, 200, FALSE, Body(IsGzUrl(u), "welcome", x)) :
             x \in { Xml(Tag("", "urlset"), <<Loc(Site("/p1"))>>, <<>>),
                     Xml(Tag("", "urlset"), <<LocNone>>, <<Loc(Child1)>>),
                     Xml(Tag("", "sitemapindex"), <<>>, <<>>),
                     Xml(Tag("", "sitemapindex"), <<>>, <<Loc(Child1), Loc(Child2)>>),
                     Xml(Tag("", "sitemapindex"), <<>>, <<Loc(Child2)>>),
                     Xml(Tag("", "SitemapIndex"), <<>>, <<Loc(Child1), Loc(Child1)>>) } }

Worlds ==
  { w \in [SitemapUrls -> UNION {Answers(u) : u \in SitemapUrls}] :
      \A u \in SitemapUrls : w[u] \in Answers(u) }

\* The sitemaps that the payload of u names as children in world w.
ChildrenIn(w, u) ==
  LET out == SitemapPayload(u, w[u])
  IN  IF out.ret THEN {} ELSE Range(out.children) \cap SitemapUrls

LinkedIn(w, S) == S \cup UNION {ChildrenIn(w, v) : v \in S}

\* No sitemap of w is reached from itself.
Acyclic(w) ==
  \A u \in SitemapUrls : u \notin LinkedIn(w, LinkedIn(w, ChildrenIn(w, u)))

\* fetch_all_sitemap_urls is called on a web whose sitemaps, whatever each
\* of them answers, form an acyclic graph.
InitAcyclic ==
  \E u \in {SM}, n \in 0..MaxCap, w \in {x \in Worlds : Acyclic(x)} :
    /\ entry = "resolve" /\ pc = "resolve"
    /\ website = <<>> /\ base_url = EmptyURL
    /\ max_children = n /\ limit = DefaultLimit
    /\ candidates = <<>> /\ candIdx = 0
    /\ stack = <<Frame(u)>>
    /\ retval = <<>>
    /\ queue = <<>> /\ visited = {}
    /\ urls = <<>> /\ total_pages = 0 /\ sampleIdx = 0 /\ counts = <<>>
    /\ average_words = Frac(0, 1)
    /\ smWorld = w /\ faults = 0 /\ failed = {} /\ blocked = {}
    /\ winner = 0 /\ via = "none" /\ discovered = {} /\ navLog = <<>>

\* fallback_crawl_internal(page, base_url, limit) is called (222-223).
InitCrawl ==
  \E b \in Bases, n \in 0..MaxLimit :
    /\ entry = "crawl" /\ pc = "crawl"
    /\ website = <<>> /\ base_url = b
    /\ max_children = DefaultMaxChildren /\ limit = n
    /\ candidates = <<>> /\ candIdx = 0 /\ stack = <<>> /\ retval = <<>>
    /\ queue = <<b>> /\ visited = {}
    /\ urls = <<>> /\ total_pages = 0 /\ sampleIdx = 0 /\ counts = <<>>
    /\ average_words = Frac(0, 1)
    /\ smWorld = EmptyWorld /\ faults = 0 /\ failed = {} /\ blocked = {}
    /\ winner = 0 /\ via = "none" /\ discovered = {} /\ navLog = <<>>

Reverse(s) == [i \in 1..Len(s) |-> s[Len(s) + 1 - i]]

\* A sitemap that lists its pages in no particular order.
ManyPaths ==
  <<"/p9", "/p10", "/p2", "/p1", "/p12", "/p3", "/p11", "/p4", "/p5", "/p6",
    "/p7", "/p8">>

ManyPages(n) == [i \in 1..n |-> Site(ManyPaths[i])]

FewPages == {Site("/p1"), Site("/p10"), Other("/p1"), URL("http", "A.com", "/p2")}

\* Lists discover_urls_from_sitemaps can return: non-empty, stripped,
\* without duplicates (190-199).
SitemapLists ==
  UNION { {ManyPages(n), Reverse(ManyPages(n)), <<Other("/p1")>> \o ManyPages(n)} :
          n \in (SampleSize - 1)..(SampleSize + 2) }
    \cup UNION {Orders(S) : S \in (SUBSET FewPages) \ {{}}}

\* Lists fallback_crawl_internal can return: the visited set in any order,
\* the base URL in it, every URL on the base host (246).
CrawlLists(b) ==
  UNION {Orders({b} \cup S) : S \in SUBSET {Site("/p1"), Site("/p10"), Site("/p2")}}

\* main() at line 315: discovery, or the crawl after it, has returned.
InitTail ==
  \E w \in {x \in Websites : ~normalize_base_url(x).raises} :
    \E how \in {"sitemap", "crawl"} :
      /\ entry = "main" /\ pc = "filter"
      /\ website = w
      /\ base_url = normalize_base_url(w).url
      /\ max_children = DefaultMaxChildren /\ limit = DefaultLimit
      /\ candidates = <<>> /\ candIdx = 0 /\ stack = <<>>
      /\ retval \in (IF how = "sitemap" THEN SitemapLists ELSE CrawlLists(base_url))
      /\ queue = <<>> /\ visited = {}
      /\ urls = <<>> /\ total_pages = 0 /\ sampleIdx = 0 /\ counts = <<>>
      /\ average_words = Frac(0, 1)
      /\ smWorld = EmptyWorld /\ faults = 0 /\ failed = {} /\ blocked = {}
      /\ winner = 0 /\ via = how /\ discovered = {} /\ navLog = <<>>

\* The website arguments normalize_base_url is called with on its own:
\* optional blanks, an optional scheme prefix, an optional host, an optional
\* path, optional blanks.
Piece(p) == IF p = "" THEN <<>> ELSE <<p>>

WebsiteArguments ==
  { Piece(lead) \o Piece(prefix) \o Piece(host) \o Piece(path) \o Piece(trail) :
      lead \in {"", " "}, prefix \in {"", "http://", "https://", "HTTPS://"},
      host \in {"", "a.com", "A.com"}, path \in {"", "/x"}, trail \in {"", " "} }

\* One call normalize_base_url(website) (30-39).
InitNormalize ==
  \E w \in WebsiteArguments :
    /\ entry = "normalize" /\ pc = "normalize"
    /\ website = w
    /\ base_url = EmptyURL
    /\ max_children = DefaultMaxChildren /\ limit = DefaultLimit
    /\ candidates = <<>> /\ candIdx = 0 /\ stack = <<>> /\ retval = <<>>
    /\ queue = <<>> /\ visited = {}
    /\ urls = <<>> /\ total_pages = 0 /\ sampleIdx = 0 /\ counts = <<>>
    /\ average_words = Frac(0, 1)
    /\ smWorld = EmptyWorld /\ faults = 0 /\ failed = {} /\ blocked = {}
    /\ winner = 0 /\ via = "none" /\ discovered = {} /\ navLog = <<>>

\* The lists compute_average_words is called with on its own: none, a few
\* URLs in any order, one URL twice, and more URLs than the sample takes.
SampleArguments ==
  UNION {Orders(S) : S \in SUBSET {Site("/"), Site("/p1"), Site("/p2")}}
    \cup {<<Site("/p1"), Site("/p1")>>, ManyPages(SampleSize + 1)}

\* One call compute_average_words(page, urls, sample_size) (263-265).
InitSample ==
  \E list \in SampleArguments :
    /\ entry = "sample" /\ pc = "sample"
    /\ website = <<>> /\ base_url = URL("https", "a.com", "/")
    /\ max_children = DefaultMaxChildren /\ limit = DefaultLimit
    /\ candidates = <<>> /\ candIdx = 0 /\ stack = <<>> /\ retval = <<>>
    /\ queue = <<>> /\ visited = {}
    /\ urls = list /\ total_pages = Len(list) /\ sampleIdx = 1 /\ counts = <<>>
    /\ average_words = Frac(0, 1)
    /\ smWorld = EmptyWorld /\ faults = 0 /\ failed = {} /\ blocked = {}
    /\ winner = 0 /\ via = "none" /\ discovered = {} /\ navLog = <<>>

(* -------------------------------- main --------------------------------- *)

fixedVars == <<entry, website, max_children, limit>>

\* A start that opens the session whatever normalize_base_url answers.
MainStartLenient ==
  /\ pc = "start"
  /\ LET n == normalize_base_url(website)
     IN  pc' = "warmup" /\ base_url' = IF n.raises THEN URL("https", "", "/") ELSE n.url
  /\ UNCHANGED <<fixedVars, navLog, candidates, candIdx, stack, retval, queue, visited,
                 urls, total_pages, sampleIdx, counts, average_words, smWorld,
                 faults, failed, blocked, winner, via, discovered>>

\* Lines 292-307: the base URL is normalized, then the session is opened.
MainStart ==
  /\ pc = "start"
  /\ LET n == normalize_base_url(website)
     IN  IF n.raises THEN pc' = "raised" /\ UNCHANGED base_url
         ELSE pc' = "warmup" /\ base_url' = n.url
  /\ UNCHANGED <<fixedVars, navLog, candidates, candIdx, stack, retval, queue, visited,
                 urls, total_pages, sampleIdx, counts, average_words, smWorld,
                 faults, failed, blocked, winner, via, discovered>>

\* A warm-up whose failed navigation ends the run.
WarmupOrAbort(resp) ==
  /\ pc = "warmup"
  /\ failed' = IF resp.raised THEN failed \cup {base_url} ELSE failed
  /\ UNCHANGED blocked
  /\ faults' = FaultsAfter(NavResult(resp) # "ok")
  /\ pc' = IF resp.raised THEN "raised" ELSE "robots"
  /\ UNCHANGED <<fixedVars, navLog, base_url, candidates, candIdx, stack, retval, queue,
                 visited, urls, total_pages, sampleIdx, counts, average_words,
                 smWorld, winner, via, discovered>>

\* open_homepage_for_cookies (129-136), called at 309.
WarmupWith(resp) ==
  /\ pc = "warmup"
  /\ failed' = IF resp.raised THEN failed \cup {base_url} ELSE failed
  /\ UNCHANGED blocked
  /\ faults' = FaultsAfter(NavResult(resp) # "ok")
  /\ pc' = "robots"
  /\ UNCHANGED <<fixedVars, navLog, base_url, candidates, candIdx, stack, retval, queue,
                 visited, urls, total_pages, sampleIdx, counts, average_words,
                 smWorld, winner, via, discovered>>

Warmup ==
  /\ pc = "warmup"
  /\ \E resp \in Navigations(base_url) : WarmupWith(resp)

RobotsUrl == URL(base_url.scheme, base_url.host, "/robots.txt")

RobotsResponses ==
  {r \in RobotsFailed \cup RobotsBlocked : faults < MaxFaults} \cup RobotsGood

\* discover_urls_from_sitemaps up to its first call of
\* fetch_all_sitemap_urls (186-188), try_discover_sitemaps included.
RobotsWith(resp) ==
  /\ pc = "robots"
  /\ candidates' = try_discover_sitemaps(base_url, resp)
  /\ failed' = IF FetchIsNone(resp) THEN failed \cup {RobotsUrl} ELSE failed
  /\ blocked' = IF ~FetchIsNone(resp) /\ is_probably_cloudflare_block(resp.text.phrase)
                 THEN blocked \cup {RobotsUrl} ELSE blocked
  /\ faults' = FaultsAfter(resp \in RobotsFailed \cup RobotsBlocked)
  /\ candIdx' = 1
  /\ stack' = <<Frame(candidates'[1])>>
  /\ pc' = "resolve"
  /\ UNCHANGED <<fixedVars, navLog, base_url, retval, queue, visited, urls, total_pages,
                 sampleIdx, counts, average_words, smWorld, winner, via,
                 discovered>>

Robots == \E resp \in RobotsResponses : RobotsWith(resp)

(* ---------------------- the sitemap fetches (159-200) ------------------ *)

Top(stk) == stk[Len(stk)]
Pop(stk) == SubSeq(stk, 1, Len(stk) - 1)

RECURSIVE UnwindDropping(_, _)
\* A return after which the caller keeps none of the URLs returned to it.
UnwindDropping(stk, val) ==
  IF stk = <<>> THEN [stack |-> <<>>, done |-> TRUE, val |-> val]
  ELSE LET f == Top(stk)
           g == [f EXCEPT !.i = @ + 1]
       IN  IF g.i <= Len(Take(g.children, max_children))
             THEN [stack |-> Append(Append(Pop(stk), g), Frame(g.children[g.i])),
                   done |-> FALSE, val |-> <<>>]
             ELSE UnwindDropping(Pop(stk), g.all_urls)

RECURSIVE UnwindStaying(_, _)
\* A return that the caller ignores: it calls the same child again.
UnwindStaying(stk, val) ==
  IF stk = <<>> THEN [stack |-> <<>>, done |-> TRUE, val |-> val]
  ELSE LET f == Top(stk)
           g == f
       IN  IF g.i <= Len(Take(g.children, max_children))
             THEN [stack |-> Append(Append(Pop(stk), g), Frame(g.children[g.i])),
                   done |-> FALSE, val |-> <<>>]
             ELSE UnwindStaying(Pop(stk), g.all_urls)

RECURSIVE Unwind(_, _)
\* An activation returns val to the activations stk below it: the caller
\* extends all_urls and either calls its next child or returns in turn.
Unwind(stk, val) ==
  IF stk = <<>> THEN [stack |-> <<>>, done |-> TRUE, val |-> val]
  ELSE LET f == Top(stk)
           g == [f EXCEPT !.all_urls = @ \o val, !.i = @ + 1]
       IN  IF g.i <= Len(Take(g.children, max_children))
             THEN [stack |-> Append(Append(Pop(stk), g), Frame(g.children[g.i])),
                   done |-> FALSE, val |-> <<>>]
             ELSE Unwind(Pop(stk), g.all_urls)

\* An activation that returns nothing when its URL is already open in one
\* of its callers.
AfterFetchOnce(resp) ==
  LET f   == Top(stack)
      out == SitemapPayload(f.url, resp)
  IN  IF \E i \in 1..(Len(stack) - 1) : stack[i].url = f.url
        THEN Unwind(Pop(stack), <<>>)
      ELSE IF out.ret THEN Unwind(Pop(stack), out.val)
      ELSE IF Take(out.children, max_children) = <<>> THEN Unwind(Pop(stack), <<>>)
      ELSE [stack |-> Append(Append(Pop(stack),
                                    [f EXCEPT !.children = out.children, !.i = 1]),
                             Frame(out.children[1])),
            done |-> FALSE, val |-> <<>>]

\* The activation on top of the stack receives resp for its URL: the stack
\* at the next fetch, or the value the outermost activation returns.
AfterFetch(resp) ==
  LET f   == Top(stack)
      out == SitemapPayload(f.url, resp)
  IN  IF out.ret THEN Unwind(Pop(stack), out.val)
      ELSE IF Take(out.children, max_children) = <<>> THEN Unwind(Pop(stack), <<>>)
      ELSE [stack |-> Append(Append(Pop(stack),
                                    [f EXCEPT !.children = out.children, !.i = 1]),
                             Frame(out.children[1])),
            done |-> FALSE, val |-> <<>>]

\* The responses the web may give for sitemap URL u now.
SitemapResponses(u) ==
  IF FixedWeb /\ u \in DOMAIN smWorld THEN {smWorld[u]}
  ELSE {r \in FailedResponses \cup BrokenResponses(u) : faults < MaxFaults}
         \cup GoodResponses(u)

Remember(u, resp) ==
  IF ~FixedWeb \/ u \in DOMAIN smWorld THEN smWorld
  ELSE [v \in DOMAIN smWorld \cup {u} |-> IF v = u THEN resp ELSE smWorld[v]]

\* What every fetch of the sitemap URL on top of the stack records.
FetchSitemap(resp) ==
  LET u == Top(stack).url
  IN  /\ failed' = IF FetchIsNone(resp) THEN failed \cup {u} ELSE failed
      /\ blocked' = IF SitemapPayload(u, resp).how = "blocked"
                      THEN blocked \cup {u} ELSE blocked
      /\ faults' = FaultsAfter(u \notin DOMAIN smWorld /\ IsFault(u, resp))
      /\ smWorld' = Remember(u, resp)

\* Lines 315-319 and 264-265: the host filter, the dedup and the sort,
\* total_pages, and the start of compute_average_words.
ToSample(list, how) ==
  /\ urls' = FilterSort(list, base_url)
  /\ total_pages' = Len(urls')
  /\ sampleIdx' = 1
  /\ counts' = <<>>
  /\ pc' = "sample"
  /\ via' = how
  /\ discovered' = Range(list)

\* Line 313 up to the loop of fallback_crawl_internal (222-223).
ToCrawl ==
  /\ queue' = <<base_url>>
  /\ visited' = {}
  /\ pc' = "crawl"
  /\ via' = "crawl"

\* discover_urls_from_sitemaps returns: its locals are gone.
LeaveDiscovery ==
  /\ candidates' = <<>>
  /\ candIdx' = 0
  /\ stack' = <<>>

\* Lines 190-198.
Cleaned(list) == Dedup(SelectSeq(list, LAMBDA u : u # EmptyURL), {})

\* A fetch after which fetch_all_sitemap_urls goes on to fetch a child.
ResolveStepWith(resp) ==
  /\ pc = "resolve"
  /\ ~AfterFetch(resp).done
  /\ Len(AfterFetch(resp).stack) <= MaxDepth
  /\ FetchSitemap(resp)
  /\ stack' = AfterFetch(resp).stack
  /\ UNCHANGED <<fixedVars, navLog, pc, base_url, candidates, candIdx, retval, queue,
                 visited, urls, total_pages, sampleIdx, counts, average_words,
                 winner, via, discovered>>

ResolveStep ==
  /\ pc = "resolve"
  /\ \E resp \in SitemapResponses(Top(stack).url) : ResolveStepWith(resp)

\* A fetch after which the outermost activation returns to its caller.
ResolveReturnWith(resp) ==
  /\ pc = "resolve" /\ entry = "resolve"
  /\ AfterFetch(resp).done
  /\ FetchSitemap(resp)
  /\ stack' = <<>>
  /\ retval' = AfterFetch(resp).val
  /\ pc' = "returned"
  /\ UNCHANGED <<fixedVars, navLog, base_url, candidates, candIdx, queue, visited, urls,
                 total_pages, sampleIdx, counts, average_words, winner, via,
                 discovered>>

ResolveReturn ==
  /\ pc = "resolve"
  /\ \E resp \in SitemapResponses(Top(stack).url) : ResolveReturnWith(resp)

\* A candidate resolves to a non-empty list and main crawls all the same.
DiscoverHitThenCrawl(resp) ==
  /\ pc = "resolve" /\ entry = "main"
  /\ AfterFetch(resp).done /\ AfterFetch(resp).val # <<>>
  /\ FetchSitemap(resp)
  /\ ToCrawl /\ UNCHANGED <<urls, total_pages, sampleIdx, counts, discovered>>
  /\ winner' = candIdx
  /\ LeaveDiscovery
  /\ UNCHANGED <<fixedVars, navLog, base_url, retval, average_words>>

\* A candidate resolves to a non-empty list: 189-199, then 312-319.
DiscoverHitWith(resp) ==
  /\ pc = "resolve" /\ entry = "main"
  /\ AfterFetch(resp).done /\ AfterFetch(resp).val # <<>>
  /\ FetchSitemap(resp)
  /\ LET cleaned == Cleaned(AfterFetch(resp).val)
     IN  IF cleaned # <<>>
           THEN ToSample(cleaned, "sitemap") /\ UNCHANGED <<queue, visited>>
           ELSE ToCrawl /\ UNCHANGED <<urls, total_pages, sampleIdx, counts, discovered>>
  /\ winner' = candIdx
  /\ LeaveDiscovery
  /\ UNCHANGED <<fixedVars, navLog, base_url, retval, average_words>>

DiscoverHit ==
  /\ pc = "resolve"
  /\ \E resp \in SitemapResponses(Top(stack).url) : DiscoverHitWith(resp)

\* A candidate resolves to nothing and another one is left: 187-188.
DiscoverNextWith(resp) ==
  /\ pc = "resolve" /\ entry = "main"
  /\ candIdx < Len(candidates)
  /\ AfterFetch(resp).done /\ AfterFetch(resp).val = <<>>
  /\ FetchSitemap(resp)
  /\ candIdx' = candIdx + 1
  /\ stack' = <<Frame(candidates[candIdx + 1])>>
  /\ UNCHANGED <<fixedVars, navLog, pc, base_url, candidates, retval, queue, visited, urls,
                 total_pages, sampleIdx, counts, average_words, winner, via,
                 discovered>>

DiscoverNext ==
  /\ pc = "resolve"
  /\ \E resp \in SitemapResponses(Top(stack).url) : DiscoverNextWith(resp)

\* The last candidate resolves to nothing: 200, then 312-313.
DiscoverMissWith(resp) ==
  /\ pc = "resolve" /\ entry = "main"
  /\ candIdx = Len(candidates)
  /\ AfterFetch(resp).done /\ AfterFetch(resp).val = <<>>
  /\ FetchSitemap(resp)
  /\ ToCrawl
  /\ LeaveDiscovery
  /\ UNCHANGED <<fixedVars, navLog, base_url, retval, urls, total_pages, sampleIdx, counts,
                 average_words, winner, discovered>>

DiscoverMiss ==
  /\ pc = "resolve"
  /\ \E resp \in SitemapResponses(Top(stack).url) : DiscoverMissWith(resp)

(* ------------------- fallback_crawl_internal (221-246) ----------------- *)

\* A loop that goes on for as long as the queue holds a URL.
LoopUncapped == queue # <<>>

\* The loop condition (225).
LoopRuns == queue # <<>> /\ Cardinality(visited) < limit

\* An iteration that finds a visited URL at the head of the frontier and
\* leaves it there.
CrawlSkipKeeping ==
  /\ pc = "crawl"
  /\ LoopRuns
  /\ Head(queue) \in visited
  /\ UNCHANGED vars

\* An iteration that pops a URL already visited (226-228).
CrawlSkip ==
  /\ pc = "crawl"
  /\ LoopRuns
  /\ Head(queue) \in visited
  /\ queue' = Tail(queue)
  /\ UNCHANGED <<fixedVars, navLog, pc, base_url, candidates, candIdx, stack, retval,
                 visited, urls, total_pages, sampleIdx, counts, average_words,
                 smWorld, faults, failed, blocked, winner, via, discovered>>

\* An iteration that appends only the first new link of the page.
EnqueuedFirstOnly(resp, url, seen) ==
  IF NavResult(resp) # "ok" THEN <<>>
  ELSE Take(SelectSeq(extract_internal_links(resp.html.anchors, url, base_url),
                      LAMBDA u : u \notin seen), 1)

\* The links an iteration appends to the queue (231-244).
Enqueued(resp, url, seen) ==
  IF NavResult(resp) # "ok" THEN <<>>
  ELSE SelectSeq(extract_internal_links(resp.html.anchors, url, base_url),
                 LAMBDA u : u \notin seen)

\* An iteration that puts the links it found in front of the frontier.
CrawlVisitDepthFirst(resp) ==
  /\ pc = "crawl"
  /\ LoopRuns
  /\ Head(queue) \notin visited
  /\ visited' = visited \cup {Head(queue)}
  /\ queue' = Enqueued(resp, Head(queue), visited') \o Tail(queue)
  /\ failed' = IF resp.raised THEN failed \cup {Head(queue)} ELSE failed
  /\ blocked' = IF NavResult(resp) = "blocked" THEN blocked \cup {Head(queue)}
                 ELSE blocked
  /\ faults' = FaultsAfter(NavResult(resp) # "ok")
  /\ navLog' = Logged(Head(queue), resp)
  /\ UNCHANGED <<fixedVars, pc, base_url, candidates, candIdx, stack, retval, urls,
                 total_pages, sampleIdx, counts, average_words, smWorld, winner,
                 via, discovered>>

\* An iteration that marks a URL visited only when its page was usable.
CrawlVisitAfterSuccess(resp) ==
  /\ pc = "crawl"
  /\ LoopRuns
  /\ Head(queue) \notin visited
  /\ visited' = IF NavResult(resp) = "ok" THEN visited \cup {Head(queue)} ELSE visited
  /\ queue' = Tail(queue) \o Enqueued(resp, Head(queue), visited')
  /\ failed' = IF resp.raised THEN failed \cup {Head(queue)} ELSE failed
  /\ blocked' = IF NavResult(resp) = "blocked" THEN blocked \cup {Head(queue)}
                 ELSE blocked
  /\ faults' = FaultsAfter(NavResult(resp) # "ok")
  /\ navLog' = Logged(Head(queue), resp)
  /\ UNCHANGED <<fixedVars, pc, base_url, candidates, candIdx, stack, retval, urls,
                 total_pages, sampleIdx, counts, average_words, smWorld, winner,
                 via, discovered>>

\* An iteration that visits a URL (226-244).
CrawlVisitWith(resp) ==
  /\ pc = "crawl"
  /\ LoopRuns
  /\ Head(queue) \notin visited
  /\ visited' = visited \cup {Head(queue)}
  /\ queue' = Tail(queue) \o Enqueued(resp, Head(queue), visited')
  /\ failed' = IF resp.raised THEN failed \cup {Head(queue)} ELSE failed
  /\ blocked' = IF NavResult(resp) = "blocked" THEN blocked \cup {Head(queue)}
                 ELSE blocked
  /\ faults' = FaultsAfter(NavResult(resp) # "ok")
  /\ navLog' = Logged(Head(queue), resp)
  /\ UNCHANGED <<fixedVars, pc, base_url, candidates, candIdx, stack, retval, urls,
                 total_pages, sampleIdx, counts, average_words, smWorld, winner,
                 via, discovered>>

CrawlVisit ==
  /\ pc = "crawl"
  /\ LoopRuns
  /\ \E resp \in Navigations(Head(queue)) : CrawlVisitWith(resp)

\* The loop ends and the crawl returns list(visited) to main (246, 315-319);
\* the crawl's locals are gone.
CrawlFinish ==
  /\ pc = "crawl" /\ entry = "main"
  /\ ~LoopRuns
  /\ \E order \in Orders(visited) : ToSample(order, "crawl")
  /\ queue' = <<>>
  /\ visited' = {}
  /\ UNCHANGED <<fixedVars, navLog, base_url, candidates, candIdx, stack, retval,
                 average_words, smWorld, faults, failed, blocked, winner>>

\* The loop ends and the crawl returns list(visited) to its caller (246).
CrawlReturn ==
  /\ pc = "crawl" /\ entry = "crawl"
  /\ ~LoopRuns
  /\ retval' \in Orders(visited)
  /\ pc' = "returned"
  /\ UNCHANGED <<fixedVars, navLog, base_url, candidates, candIdx, stack, queue, visited,
                 urls, total_pages, sampleIdx, counts, average_words, smWorld,
                 faults, failed, blocked, winner, via, discovered>>

(* -------------------- compute_average_words (263-284) ------------------ *)

\* One iteration of the loop over sample (267-280).
SampleNavWith(resp) ==
  /\ pc = "sample"
  /\ sampleIdx <= Len(Sample)
  /\ counts' = IF NavResult(resp) = "ok" /\ word_count_from_html(resp.html.nodes) > 0
                 THEN Append(counts, word_count_from_html(resp.html.nodes))
                 ELSE counts
  /\ failed' = IF resp.raised THEN failed \cup {Sample[sampleIdx]} ELSE failed
  /\ blocked' = IF NavResult(resp) = "blocked" THEN blocked \cup {Sample[sampleIdx]}
                 ELSE blocked
  /\ faults' = FaultsAfter(NavResult(resp) # "ok")
  /\ navLog' = Logged(Sample[sampleIdx], resp)
  /\ sampleIdx' = sampleIdx + 1
  /\ UNCHANGED <<fixedVars, pc, base_url, candidates, candIdx, stack, retval, queue,
                 visited, urls, total_pages, average_words, smWorld, winner, via,
                 discovered>>

SampleNav ==
  /\ pc = "sample"
  /\ sampleIdx <= Len(Sample)
  /\ \E resp \in Navigations(Sample[sampleIdx]) : SampleNavWith(resp)

\* The loop ends: the average (282-284), then main builds the Result.
Finish ==
  /\ pc = "sample"
  /\ sampleIdx > Len(Sample)
  /\ average_words' = Average(counts)
  /\ pc' = "done"
  /\ UNCHANGED <<fixedVars, navLog, base_url, candidates, candIdx, stack, retval, queue,
                 visited, urls, total_pages, sampleIdx, counts, smWorld, faults,
                 failed, blocked, winner, via, discovered>>

\* Lines 315-319 on the list that discovery or the crawl returned.
MainFilter ==
  /\ pc = "filter"
  /\ ToSample(retval, via)
  /\ retval' = <<>>
  /\ UNCHANGED <<fixedVars, navLog, base_url, candidates, candIdx, stack, queue, visited,
                 average_words, smWorld, faults, failed, blocked, winner>>

(* ---------------------------- specifications --------------------------- *)

Next ==
  \/ MainStart \/ Warmup \/ Robots
  \/ ResolveStep \/ DiscoverHit \/ DiscoverNext \/ DiscoverMiss
  \/ CrawlSkip \/ CrawlVisit \/ CrawlFinish
  \/ SampleNav \/ Finish

\* One run of main().
Spec == Init /\ [][Next]_vars

NextResolve == ResolveStep \/ ResolveReturn

\* One call of fetch_all_sitemap_urls.
SpecResolve == InitResolve /\ [][NextResolve]_vars

NextCrawl == CrawlSkip \/ CrawlVisit \/ CrawlReturn

\* One call of fallback_crawl_internal.
SpecCrawl == InitCrawl /\ [][NextCrawl]_vars

\* One call of fallback_crawl_internal that keeps running: the loop is one
\* thread, and every navigation ends (with a page, an error or its 30 s
\* timeout), so an iteration that can be taken is taken.
SpecCrawlFair == InitCrawl /\ [][NextCrawl]_vars /\ WF_vars(NextCrawl)

NextTail == MainFilter \/ SampleNav \/ Finish

\* main() from line 315 on.
SpecTail == InitTail /\ [][NextTail]_vars

\* normalize_base_url returns the base URL or raises ValueError (30-39).
Normalize ==
  /\ entry = "normalize" /\ pc = "normalize"
  /\ LET n == normalize_base_url(website)
     IN  /\ pc' = IF n.raises THEN "raised" ELSE "returned"
         /\ base_url' = n.url
  /\ UNCHANGED <<fixedVars, navLog, candidates, candIdx, stack, retval, queue, visited,
                 urls, total_pages, sampleIdx, counts, average_words, smWorld,
                 faults, failed, blocked, winner, via, discovered>>

\* One call of fetch_all_sitemap_urls on an acyclic web.  The program is
\* one thread that keeps running, and every request it makes ends (with a
\* response, an error or its 30 s timeout), so a step that can be taken is
\* taken.
SpecAcyclic == InitAcyclic /\ [][NextResolve]_vars /\ WF_vars(NextResolve)

NextNormalize == Normalize

NextSample == SampleNav \/ Finish

\* One call of compute_average_words.
SpecSample == InitSample /\ [][NextSample]_vars

\* One call of normalize_base_url.
SpecNormalize == InitNormalize /\ [][NextNormalize]_vars

(* ------------------------------ properties ----------------------------- *)

\* Every outcome a navigation can have.
AnyNavigation == NavFailed \cup NavBlocked \cup NavGood \cup {PlainPage}

\* C1: one call of the crawl navigates to at most limit URLs: every
\* iteration that navigates adds one URL to visited, visited never holds
\* more than limit URLs, and the list returned holds at most limit URLs.
C1_CrawlWithinLimit ==
  /\ [](Cardinality(visited) <= limit)
  /\ [](pc = "returned" => Len(retval) <= limit)
  /\ [][\A resp \in AnyNavigation :
          CrawlVisitWith(resp) =>
            /\ Cardinality(visited') = Cardinality(visited) + 1
            /\ Cardinality(visited') <= limit]_vars

\* The crawl returns limit URLs and leaves links of the graph unvisited.
C1_Witness ==
  /\ entry = "crawl" /\ pc = "returned"
  /\ limit = MaxLimit /\ Len(retval) = limit
  /\ \E u \in Range(queue) : u \notin visited

\* C2: every URL in the queue, in visited and in the list the crawl
\* returns has the host of the base URL, letter case aside.
C2_CrawlStaysOnHost ==
  \A u \in Range(queue) \cup visited \cup Range(retval) :
    LowerSeq(Chars(u.host)) = LowerSeq(Chars(base_url.host))

\* The crawl returns a URL whose host is spelled in another case than the
\* base URL's, having followed links of a page.
C2_Witness ==
  /\ entry = "crawl" /\ pc = "returned"
  /\ \E u \in Range(retval) : u.host # base_url.host
  /\ Len(retval) = MaxLimit

\* Every response a fetch of sitemap URL u can get.
AnySitemapResponse(u) ==
  FailedResponses \cup BrokenResponses(u) \cup GoodResponses(u)

\* C3: the candidates are resolved one at a time in list order, no
\* candidate is fetched after one has resolved to a non-empty list, and
\* discovery returns empty only if every candidate resolved to an empty list.
C3_FirstSuccessWins ==
  /\ [][pc = "resolve" /\ pc' = "resolve" /\ candIdx' # candIdx =>
          /\ candIdx' = candIdx + 1
          /\ stack' = <<Frame(candidates[candIdx'])>>]_vars
  /\ [](pc = "resolve" /\ entry = "main" =>
          winner = 0 /\ stack[1].url = candidates[candIdx])
  /\ [](via = "crawl" => winner = 0)

\* Discovery ends: a candidate resolved non-empty or the last one resolved.
DiscoveryEnds(resp) == DiscoverHitWith(resp) \/ DiscoverMissWith(resp)

\* C4: the crawl starts exactly when discovery ends with an empty list; no
\* URL is crawled before that or after discovery returned a URL, also when
\* the host filter then drops every URL.
C4_CrawlIffDiscoveryEmpty ==
  /\ [][pc = "resolve" =>
          \A resp \in AnySitemapResponse(Top(stack).url) :
            DiscoveryEnds(resp) =>
              ((pc' = "crawl") <=> (Cleaned(AfterFetch(resp).val) = <<>>))]_vars
  /\ [][pc # "crawl" /\ pc' = "crawl" =>
          /\ pc = "resolve"
          /\ \E resp \in AnySitemapResponse(Top(stack).url) : DiscoveryEnds(resp)]_vars
  /\ [](pc \in {"start", "warmup", "robots", "resolve"} =>
          queue = <<>> /\ visited = {} /\ via = "none")
  /\ [](via = "sitemap" => pc \in {"sample", "done"} /\ queue = <<>> /\ visited = {})
  /\ [](via = "crawl" => discovered = {} \/ pc \in {"sample", "done"})

\* Discovery returned a URL, the host filter dropped it, and the run ended
\* without a crawl.
C4_Witness ==
  /\ pc = "done" /\ via = "sitemap"
  /\ discovered # {} /\ total_pages = 0

ValidWebsite == ~normalize_base_url(website).raises

\* C5: for a valid website no outcome of a fetch or navigation aborts the
\* run: the run is never in the raised state, while it resolves sitemaps
\* there is a candidate to fetch, and a failed fetch yields nothing: the
\* warm-up goes on to robots.txt, robots.txt adds no candidate, a sitemap
\* starts no recursion and gives no URLs, a crawled page adds no link, a
\* sampled page adds no count.
C5_FailuresNeverAbort ==
  /\ [](entry = "main" /\ ValidWebsite => pc # "raised")
  /\ [](entry = "main" /\ pc = "resolve" =>
          stack # <<>> /\ candIdx \in 1..Len(candidates))
  /\ [][\A resp \in NavFailed : WarmupWith(resp) => pc' = "robots"]_vars
  /\ [][\A resp \in RobotsFailed :
          RobotsWith(resp) => Len(candidates') = Len(DEFAULT_SITEMAP_CANDIDATES)]_vars
  /\ [][pc = "resolve" =>
          \A resp \in FailedResponses \cup BrokenResponses(Top(stack).url) :
            /\ Len(stack) = 1 => ~DiscoverHitWith(resp)
            /\ ResolveStepWith(resp) =>
                 /\ Len(stack') <= Len(stack)
                 /\ Len(stack') = Len(stack) =>
                      stack'[Len(stack) - 1].all_urls = stack[Len(stack) - 1].all_urls
            /\ DiscoverNextWith(resp) \/ DiscoverMissWith(resp) =>
                 pc' \in {"resolve", "crawl"}]_vars
  /\ [][\A resp \in NavFailed : CrawlVisitWith(resp) => queue' = Tail(queue)]_vars
  /\ [][\A resp \in NavFailed :
          SampleNavWith(resp) => counts' = counts /\ sampleIdx' = sampleIdx + 1]_vars

\* A run that met as many faulty responses as the web gives, failed
\* fetches among them, and assembled its result.
C5_Witness ==
  /\ pc = "done" /\ ValidWebsite
  /\ faults = MaxFaults /\ failed # {}

\* C6: once a fetch or navigation of a URL has failed, no later fetch or
\* navigation of the run is of that URL.
C6_FailedNeverFetchedAgain ==
  /\ [][\A resp \in AnyNavigation : WarmupWith(resp) => base_url \notin failed]_vars
  /\ [][pc = "robots" /\ pc' # pc => RobotsUrl \notin failed]_vars
  /\ [][pc = "resolve" /\ (stack' # stack \/ pc' # pc) =>
          Top(stack).url \notin failed]_vars
  /\ [][\A resp \in AnyNavigation :
          CrawlVisitWith(resp) => Head(queue) \notin failed]_vars
  /\ [][pc = "sample" /\ sampleIdx' # sampleIdx =>
          Sample[sampleIdx] \notin failed]_vars

NoRepeats(s) == \A i, j \in DOMAIN s : i # j => s[i] # s[j]

\* C6, as the code has it: no step repeats a request of its own.  The
\* candidate list names no sitemap twice and is gone through once, one
\* crawl navigates to no URL twice, whether the first navigation failed or
\* not, and the sampling pass navigates to no URL twice.  (A URL whose
\* fetch failed in one step can be requested again by another step.)
C6_NoRetryWithinAStep ==
  /\ [](NoRepeats(candidates))
  /\ [][pc = "resolve" /\ pc' = "resolve" => candIdx' \in {candIdx, candIdx + 1}]_vars
  /\ [][\A resp \in AnyNavigation :
          CrawlVisitWith(resp) =>
            /\ Head(queue) \notin visited
            /\ Head(queue) \in visited'
            /\ resp.raised => queue' = Tail(queue)]_vars
  /\ [][pc = "crawl" /\ pc' = "crawl" => visited \subseteq visited']_vars
  /\ [](pc = "sample" => NoRepeats(urls))
  /\ [][pc = "sample" /\ pc' = "sample" /\ sampleIdx' # sampleIdx =>
          sampleIdx' = sampleIdx + 1 /\ urls' = urls]_vars

\* The warm-up navigation to the base URL failed, the crawl navigated to
\* the base URL again, that navigation failed as well, and the sampling
\* pass is about to navigate to it a third time.
C6_Witness ==
  /\ pc = "sample" /\ via = "crawl"
  /\ sampleIdx = 1 /\ Sample[1] = base_url
  /\ base_url \in failed /\ faults = MaxFaults

\* The candidates when robots.txt names none.
DefaultCandidates ==
  [i \in 1..Len(DEFAULT_SITEMAP_CANDIDATES) |->
     URL(base_url.scheme, base_url.host, DEFAULT_SITEMAP_CANDIDATES[i])]

\* The payloads of sitemap URL u that the classifier flags.
BlockedSitemaps(u) ==
  {r \in BrokenResponses(u) : r.body.phrase = "Cloudflare" /\ r.body.gz = IsGzUrl(u)}

\* C7: what the classifier flags is used no further.  A blocked robots.txt
\* adds no candidate; a blocked sitemap payload is not parsed: it gives no
\* URLs and no child of it is fetched; a blocked crawled page adds no link
\* to the queue; a blocked sampled page adds no count.
C7_BlockedIsUnused ==
  /\ [][\A resp \in RobotsBlocked :
          RobotsWith(resp) => candidates' = DefaultCandidates]_vars
  /\ [][pc = "resolve" =>
          \A resp \in BlockedSitemaps(Top(stack).url) :
            /\ Len(stack) = 1 => ~DiscoverHitWith(resp)
            /\ ResolveStepWith(resp) =>
                 /\ Len(stack') <= Len(stack)
                 /\ Len(stack') = Len(stack) =>
                      stack'[Len(stack) - 1].all_urls = stack[Len(stack) - 1].all_urls]_vars
  /\ [][\A resp \in NavBlocked : CrawlVisitWith(resp) => queue' = Tail(queue)]_vars
  /\ [][\A resp \in NavBlocked : SampleNavWith(resp) => counts' = counts]_vars

\* A run in which robots.txt was blocked and a page was blocked, and whose
\* only URL is the base URL.
C7_Witness ==
  /\ pc = "done"
  /\ RobotsUrl \in blocked
  /\ base_url \in blocked
  /\ urls = <<base_url>> /\ counts = <<>>

\* C8: at every level of the index tree the sitemap being fetched is one
\* of the first max_children entries of its parent's children list, and a
\* parent goes through its children one by one in document order: no entry
\* after the first max_children is ever fetched.
C8_OnlyFirstChildren ==
  /\ [](\A k \in 1..(Len(stack) - 1) :
          /\ stack[k].i \in 1..Min(max_children, Len(stack[k].children))
          /\ stack[k + 1].url = stack[k].children[stack[k].i])
  /\ [][\A k \in 1..(Len(stack) - 1) :
          k <= Len(stack') - 1 /\ stack'[k].url = stack[k].url =>
            /\ stack'[k].children = stack[k].children
            /\ stack'[k].i \in {stack[k].i, stack[k].i + 1}]_vars

\* Two levels below the root, the last child within the cap is being
\* fetched while its index lists more children than the cap.
C8_Witness ==
  /\ entry = "resolve" /\ Len(stack) = MaxDepth
  /\ max_children = MaxCap
  /\ \E k \in 1..(Len(stack) - 1) :
       stack[k].i = max_children /\ Len(stack[k].children) > max_children

RECURSIVE Flattening(_, _)
\* The reference flattening of the tree under u, d levels deep at most: a
\* node that failed, is blocked or holds nothing gives the empty list, a
\* urlset gives its URLs, an index the flattenings of its first
\* max_children children one after the other.
Flattening(u, d) ==
  LET node == SitemapPayload(u, smWorld[u])
      kids == SubSeq(node.children, 1, Min(max_children, Len(node.children)))
      Join[k \in 0..Len(kids)] ==
        IF k = 0 THEN <<>> ELSE Join[k - 1] \o Flattening(kids[k], d - 1)
  IN  IF d = 0 \/ u \notin DOMAIN smWorld THEN <<>>
      ELSE IF node.how \in {"failed", "gzip", "blocked"} THEN <<>>
      ELSE IF node.how = "urls" THEN node.val
      ELSE Join[Len(kids)]

\* C9: what fetch_all_sitemap_urls returns for a tree is the reference
\* flattening of the tree.
C9_ReturnsFlattening ==
  pc = "returned" /\ entry = "resolve" =>
    \E root \in {SM, Child2} :
      /\ root \in DOMAIN smWorld
      /\ retval = Flattening(root, MaxDepth)

\* A tree three levels deep with a node that failed and two URLs returned.
C9_Witness ==
  /\ pc = "returned" /\ entry = "resolve"
  /\ Cardinality(DOMAIN smWorld) = 3
  /\ failed # {} /\ Len(retval) >= 2
  /\ max_children = MaxCap

\* The same-host URLs among those discovery handed to main.
OnHost == {u \in discovered : LowerSeq(Chars(u.host)) = LowerSeq(Chars(base_url.host))}

\* C10: main's URL list is the same-host URLs handed to it, each once,
\* in code-point order, total_pages is their number n, and the sampling
\* pass navigates to the first min(10, n) of them, one after the other:
\* the selection is a function of the set discovery produced.
C10_SampleIsSortedPrefix ==
  /\ [](pc \in {"sample", "done"} =>
          /\ Range(urls) = OnHost
          /\ \A k \in 1..(Len(urls) - 1) :
               LexLess(UrlChars(urls[k]), UrlChars(urls[k + 1]))
          /\ total_pages = Cardinality(OnHost)
          /\ Sample = SubSeq(urls, 1, Min(SampleSize, total_pages)))
  /\ [][\A resp \in AnyNavigation :
          SampleNavWith(resp) =>
            /\ sampleIdx \in 1..Min(SampleSize, total_pages)
            /\ sampleIdx' = sampleIdx + 1
            /\ resp.raised => urls[sampleIdx] \in failed'
            /\ resp \in NavBlocked => urls[sampleIdx] \in blocked']_vars
  /\ [](pc = "done" => sampleIdx = Min(SampleSize, total_pages) + 1)

\* More than ten same-host URLs were handed over, out of order and with an
\* off-host URL among them, and the pass has ended.
C10_Witness ==
  /\ pc = "done"
  /\ total_pages = SampleSize + 2
  /\ Cardinality(discovered) = SampleSize + 3
  /\ sampleIdx = SampleSize + 1

\* ---------------------------------------------------------------------
\* C11
\* The text of the website argument once trimmed, and the authority that
\* follows its scheme prefix (or the default prefix when it has none).
WebsiteText == Strip(Cat(website))

AuthorityText ==
  LET rest == IF StartsWith(WebsiteText, Chars("http://")) THEN SubSeq(WebsiteText, 8, Len(WebsiteText))
              ELSE IF StartsWith(WebsiteText, Chars("https://")) THEN SubSeq(WebsiteText, 9, Len(WebsiteText))
              ELSE WebsiteText
  IN  UpTo(rest, {47, 63, 35})

InvalidInput == WebsiteText = <<>> \/ AuthorityText = <<>>

NothingDone ==
  /\ base_url = EmptyURL /\ candidates = <<>> /\ candIdx = 0 /\ stack = <<>>
  /\ retval = <<>> /\ queue = <<>> /\ visited = {} /\ urls = <<>>
  /\ total_pages = 0 /\ sampleIdx = 0 /\ counts = <<>>
  /\ faults = 0 /\ failed = {} /\ blocked = {} /\ via = "none"
  /\ discovered = {} /\ smWorld = EmptyWorld

CanonScheme ==
  IF StartsWith(LowerSeq(WebsiteText), Chars("http://")) THEN "http" ELSE "https"

CanonHost ==
  LET low  == LowerSeq(WebsiteText)
      rest == IF StartsWith(low, Chars("http://")) THEN SubSeq(low, 8, Len(low))
              ELSE IF StartsWith(low, Chars("https://")) THEN SubSeq(low, 9, Len(low))
              ELSE low
  IN  UpTo(rest, {47, 63, 35})

\* C12: normalize_base_url returns scheme://host/ with scheme http or
\* https, the host lower-cased and the path discarded, recognising a scheme
\* prefix the text already has whatever its letter case, and raises exactly
\* for a text that is empty after trimming or has no host.
C12_NormalizeCanonical ==
  entry = "normalize" /\ pc \in {"returned", "raised"} =>
    IF WebsiteText = <<>> \/ CanonHost = <<>> THEN pc = "raised"
    ELSE /\ pc = "returned"
         /\ base_url = URL(CanonScheme, Atom(CanonHost), "/")

\* ---------------------------------------------------------------------
\* C13
\* The navigations of the pass that contribute a count: answered, not
\* classified as a block page, with at least one word.
Words(e) == word_count_from_html(e.resp.html.nodes)

Contributes(e) == NavResult(e.resp) = "ok" /\ Words(e) > 0

Contributed == SelectSeq(navLog, Contributes)

RECURSIVE SumWords(_)
SumWords(log) == IF log = <<>> THEN 0 ELSE Words(Head(log)) + SumWords(Tail(log))

\* C13: compute_average_words navigates to the sampled URLs in order, keeps
\* exactly the word counts of the navigations that succeeded, were not
\* classified as blocked and counted more than zero words, and returns
\* their sum divided by their number; when no navigation contributes (all
\* failed, all blocked, all without words, or no URL at all) it returns 0.0;
\* it never raises.
C13_AverageOfContributing ==
  entry = "sample" =>
    /\ pc \in {"sample", "done"}
    /\ Len(navLog) = sampleIdx - 1 /\ Len(navLog) <= Len(Sample)
    /\ \A i \in 1..Len(navLog) : navLog[i].url = Sample[i]
    /\ counts = [i \in 1..Len(Contributed) |-> Words(Contributed[i])]
    /\ pc = "done" =>
         /\ Len(navLog) = Len(Sample)
         /\ average_words.den > 0
         /\ IF Contributed = <<>> THEN average_words.num = 0
            ELSE average_words.num * Len(Contributed)
                   = SumWords(Contributed) * average_words.den

C13_Witness ==
  /\ entry = "sample" /\ pc = "done"
  /\ Len(navLog) = SampleSize /\ Len(urls) > SampleSize
  /\ \E e \in Range(navLog) : NavResult(e.resp) = "failed"
  /\ \E e \in Range(navLog) : NavResult(e.resp) = "blocked"
  /\ \E e \in Range(navLog) : NavResult(e.resp) = "ok" /\ Words(e) = 0
  /\ \E e, f \in Range(Contributed) : Words(e) # Words(f)
  /\ average_words.num # 0

\* ---------------------------------------------------------------------
\* C14
StackUrls == [i \in 1..Len(stack) |-> stack[i].url]

\* C14: on a web whose sitemaps form an acyclic graph, whatever each fetch
\* answers, no sitemap is ever open twice in the chain of activations and
\* the call of fetch_all_sitemap_urls eventually returns.
C14_AcyclicResolutionReturns ==
  /\ [](entry = "resolve" => NoRepeats(StackUrls))
  /\ <>(pc = "returned")

C14_Witness ==
  /\ entry = "resolve" /\ pc = "returned" /\ max_children = MaxCap
  /\ DOMAIN smWorld = SitemapUrls /\ Acyclic(smWorld)
  /\ ChildrenIn(smWorld, SM) = {Child1, Child2}
  /\ ChildrenIn(smWorld, Child1) = {Child2}
  /\ Len(retval) = 2

\* ---------------------------------------------------------------------
\* C15
\* The children the call follows from a sitemap it has fetched: the first
\* max_children that its payload names.
Followed(u) ==
  IF u \notin DOMAIN smWorld THEN {}
  ELSE LET out == SitemapPayload(u, smWorld[u])
       IN  IF out.ret THEN {} ELSE Range(Take(out.children, max_children))

FollowedFrom(S) == S \cup UNION {Followed(v) : v \in S}

\* A fetched sitemap leads back to itself: it lists itself, or two or three
\* sitemaps list each other in a ring.
CycleFollowed ==
  \E u \in DOMAIN smWorld : u \in FollowedFrom(FollowedFrom(Followed(u)))

\* C15: fetch_all_sitemap_urls keeps no record of the sitemaps it fetched.
\* While every fetch answers as before, a sitemap that is reached again from
\* itself within the first max_children entries is fetched again: once a
\* URL is open twice in the chain of activations it stays so, and a call
\* that has followed such a cycle never returns.
C15_CycleNeverReturns ==
  /\ [](entry = "resolve" /\ CycleFollowed => pc = "resolve" /\ stack # <<>>)
  /\ [][entry = "resolve" /\ ~NoRepeats(StackUrls)
          => ~NoRepeats(StackUrls') /\ pc' = "resolve"]_vars

C15_Witness ==
  /\ entry = "resolve" /\ pc = "resolve" /\ CycleFollowed
  /\ Len(stack) = MaxDepth
  /\ stack[1].url = SM /\ stack[2].url = Child1 /\ stack[3].url = Child1
  /\ stack[2].i = 2 /\ Top(stack).url \in DOMAIN smWorld

\* ---------------------------------------------------------------------
\* C16
\* C16: fallback_crawl_internal returns on every link graph, cyclic ones and
\* ones with more pages than the limit included; every iteration shortens
\* the frontier or visits a new URL; and when the loop has ended the
\* frontier is empty or the visited set holds exactly limit URLs.
C16_CrawlTerminates ==
  /\ <>(pc = "returned")
  /\ [](entry = "crawl" /\ pc = "returned"
           => queue = <<>> \/ Cardinality(visited) = limit)
  /\ [][entry = "crawl" /\ pc = "crawl" /\ pc' = "crawl"
          => \/ visited' = visited /\ Len(queue') < Len(queue)
             \/ visited \subseteq visited' /\ Cardinality(visited') = Cardinality(visited) + 1]_vars

C16_Witness ==
  /\ entry = "crawl" /\ pc = "returned"
  /\ Cardinality(visited) = limit /\ limit = MaxLimit
  /\ \E i \in 1..Len(queue) : queue[i] \in visited
  /\ \E i, j \in 1..Len(queue) : i # j /\ queue[i] = queue[j]
  /\ \E i \in 1..Len(queue) : queue[i] \notin visited

\* ---------------------------------------------------------------------
\* C17
\* The link graph the crawl has seen: the same-host links of every page it
\* navigated to successfully and that was not classified as blocked.
LinksSeen ==
  UNION { {<<e.url, v>> : v \in Range(extract_internal_links(e.resp.html.anchors,
                                                            e.url, base_url))} :
            e \in {x \in Range(navLog) : NavResult(x.resp) = "ok"} }

RECURSIVE Layers(_, _, _, _)
\* The URLs at link distance d or more from the base URL, each with its
\* distance: layer is the set at distance d, nearer the set below d.
Layers(links, nearer, layer, d) ==
  IF layer = {} THEN {}
  ELSE LET known == nearer \cup layer
           next  == {p[2] : p \in {q \in links : q[1] \in layer}} \ known
       IN  {<<u, d>> : u \in layer} \cup Layers(links, known, next, d + 1)

\* The link distance from the base URL of every URL the crawl has seen.
Distances == Layers(LinksSeen, {}, {base_url}, 0)

Reachable == {p[1] : p \in Distances}

LogUrls == [i \in 1..Len(navLog) |-> navLog[i].url]

\* C17: the crawl is breadth first.  It navigates to each URL at most once,
\* the URLs it marks visited come in non-decreasing link distance from the
\* base URL, and at any time (so also when the cap ends the crawl) no
\* visited URL is farther from the base than a URL that is still waiting
\* in the frontier unvisited.
C17_BreadthFirst ==
  entry = "crawl" =>
    /\ NoRepeats(LogUrls) /\ Range(LogUrls) = visited
    /\ visited \cup Range(queue) \subseteq Reachable
    /\ LET ranked == Distances
           Distance(u) == CHOOSE d \in 0..Len(navLog) : <<u, d>> \in ranked
       IN  /\ \A i, j \in 1..Len(navLog) :
                i < j => Distance(LogUrls[i]) <= Distance(LogUrls[j])
           /\ \A q \in Range(queue) \ visited :
                \A v \in visited : Distance(v) <= Distance(q)
    /\ pc = "returned" => Range(retval) = visited /\ Len(retval) = Cardinality(visited)

C17_Witness ==
  /\ entry = "crawl" /\ pc = "returned" /\ Len(navLog) = MaxLimit
  /\ LET ranked == Distances
     IN  /\ <<LogUrls[2], 1>> \in ranked /\ <<LogUrls[3], 1>> \in ranked
         /\ <<LogUrls[4], 2>> \in ranked
         /\ \E q \in Range(queue) \ visited : <<q, 2>> \in ranked
  /\ \E q \in Range(queue) : q \in visited

\* ---------------------------------------------------------------------
\* C19
\* C19: when the crawl returns with an empty frontier, the URLs it returns
\* are exactly the base URL and every URL reached from it by chains of
\* same-host http(s) links, fragments stripped, through pages that were
\* navigated to successfully and were not classified as blocked.
C19_ReturnsReachableSet ==
  entry = "crawl" /\ pc = "returned" /\ queue = <<>> =>
    /\ Range(retval) = Reachable
    /\ base_url \in Range(retval)
    /\ \A u \in Range(retval) :
         u.scheme \in {"http", "https"} /\ same_host(u, base_url)

C19_Witness ==
  /\ entry = "crawl" /\ pc = "returned" /\ queue = <<>>
  /\ Cardinality(visited) = 3 /\ Cardinality(visited) < limit
  /\ \E e \in Range(navLog) : NavResult(e.resp) = "blocked" /\ e.resp.html.anchors # <<>>
  /\ \E p \in LinksSeen : p[1] # base_url /\ p[2] # p[1]

\* ---------------------------------------------------------------------
\* C18
\* The page URLs that the parser yields for what sitemap URL u answered:
\* none unless the fetch gave a body whose gzip framing fits the URL and
\* that is not classified as a block page.
PageUrls(u, resp) ==
  IF FetchIsNone(resp) \/ resp.body.gz # IsGzUrl(u)
       \/ is_probably_cloudflare_block(resp.body.phrase)
    THEN <<>>
  ELSE parse_sitemap_xml(resp.body.xml).urls

\* C18: when the payload of a sitemap yields at least one page URL, the
\* activation returns exactly those URLs to its caller at once and fetches
\* no child of that payload, also when the payload names sitemaps as well;
\* an activation goes on to a child only when its payload yielded no page
\* URL, and then to the first child the payload names.
C18_UrlsBeforeChildren ==
  [][entry = "resolve" /\ pc = "resolve" =>
       \A resp \in AnySitemapResponse(Top(stack).url) :
         LET got == PageUrls(Top(stack).url, resp)
             n   == Len(stack)
         IN  /\ got # <<>> /\ ResolveStepWith(resp) =>
                  /\ Len(stack') <= n
                  /\ \A k \in 1..(Len(stack') - 1) : stack'[k].url = stack[k].url
                  /\ Len(stack') = n =>
                       stack'[n - 1].all_urls = stack[n - 1].all_urls \o got
             /\ got # <<>> /\ ResolveReturnWith(resp) /\ n = 1 => retval' = got
             /\ ResolveStepWith(resp) /\ Len(stack') > n =>
                  /\ got = <<>>
                  /\ stack'[n].url = stack[n].url /\ stack'[n].i = 1
                  /\ stack'[n + 1].url = stack'[n].children[1]]_vars

C18_Witness ==
  /\ entry = "resolve" /\ pc = "returned"
  /\ DOMAIN smWorld = {SM}
  /\ SelectLocs(smWorld[SM].body.xml.smLocs) = <<Child1>>
  /\ PageUrls(SM, smWorld[SM]) # <<>>
  /\ retval = PageUrls(SM, smWorld[SM])
  /\ max_children = MaxCap

\* ---------------------------------------------------------------------
\* C20
\* C20: a run that used the fallback crawl reports at least one page: the
\* base URL is visited in the crawl's first iteration whatever its
\* navigation gives, is returned, and passes the host filter.  A run reports
\* no page only when sitemap discovery handed over a non-empty list of
\* which no URL is on the base URL's host.
C20_CrawlReportsBase ==
  /\ [](entry = "main" /\ pc \in {"sample", "done"} /\ via = "crawl"
           => total_pages >= 1 /\ base_url \in Range(urls))
  /\ [](entry = "main" /\ pc \in {"sample", "done"} /\ total_pages = 0
           => /\ via = "sitemap" /\ discovered # {}
              /\ \A u \in discovered : ~same_host(u, base_url))
  /\ [][entry = "main" /\ pc = "crawl" /\ pc' # "crawl"
          => pc' = "sample" /\ base_url \in visited /\ queue' = <<>>]_vars
  /\ [][entry = "main" /\ pc = "crawl" /\ visited = {} /\ pc' = "crawl"
          => visited' = {base_url}]_vars

C20_Witness ==
  /\ entry = "main" /\ pc = "sample" /\ sampleIdx = 1 /\ via = "crawl"
  /\ base_url \in blocked /\ base_url \in failed
  /\ total_pages = 1 /\ urls = <<base_url>>

====
